---- MODULE Spec2Model ----
(***************************************************************************)
(* Model of mars_chronicles_full.py: the Streamlit script main() re-run on *)
(* every user event, the session state it keeps (user_data and             *)
(* story_choices), generate_story_segment with its line-prefix parser, and *)
(* the save / load of the profile as JSON.                                 *)
(*                                                                         *)
(* Texts the program inspects character by character (the model's reply,   *)
(* the narrative, the choices, the context) are sequences of one-character *)
(* strings.  Profile fields that are only stored are TLA+ strings.         *)
(***************************************************************************)
EXTENDS Integers, Sequences, FiniteSets, TLC

VARIABLES
    user_data,      \* st.session_state.user_data, a dict in insertion order
    story_choices,  \* st.session_state.story_choices
    pc,             \* position of the script: "run", "form", "generate", "wait", "parse", "parsed"
    save_data,      \* the JSON document attached to the download button
    upload_msg,     \* what the sidebar reported about the uploaded file
    context,        \* the context string handed to generate_story_segment
    full_text,      \* the last reply of the text-generation service
    story_text,     \* first component returned by generate_story_segment
    choices,        \* second component returned by generate_story_segment
    gen_error,      \* st.error was shown by generate_story_segment
    screen          \* what the main column shows

vars == <<user_data, story_choices, pc, save_data, upload_msg, context,
          full_text, story_text, choices, gen_error, screen>>

-----------------------------------------------------------------------------
(* Bounds *)

\* A choice button is only pressed while fewer than MaxChoices choices were
\* recorded and progress is below MaxChoices.
MaxChoices == 4

\* Most lines of a reply text enumerated by the parser specification.
MaxLines == 5

-----------------------------------------------------------------------------
(* Python values *)

\* Optional[str]: None is the empty tuple, a string s is <<s>>.
NoneVal == <<>>

Some(s) == <<s>>

\* Dictionary keys and JSON scalars carry their type.
StrKey(s) == <<"str", s>>

IntKey(n) == <<"int", n>>

Min(a, b) == IF a < b THEN a ELSE b

NL == "\n"

-----------------------------------------------------------------------------
(* str methods used by the parser *)

HasNL(s) == \E i \in 1..Len(s) : s[i] = NL

FirstNL(s) == CHOOSE i \in 1..Len(s) : s[i] = NL /\ \A j \in 1..(i-1) : s[j] # NL

\* full_text.split("\n")
RECURSIVE SplitLines(_)
SplitLines(s) ==
    IF ~HasNL(s) THEN <<s>>
    ELSE <<SubSeq(s, 1, FirstNL(s) - 1)>> \o SplitLines(SubSeq(s, FirstNL(s) + 1, Len(s)))

\* sep.join(parts)
RECURSIVE Join(_, _)
Join(sep, parts) ==
    IF Len(parts) = 0 THEN <<>>
    ELSE IF Len(parts) = 1 THEN parts[1]
    ELSE parts[1] \o sep \o Join(sep, Tail(parts))

\* line.startswith(prefix) for one prefix
StartsWith(line, prefix) ==
    Len(line) >= Len(prefix) /\ SubSeq(line, 1, Len(prefix)) = prefix

\* the literal tuple ('1.', '2.', '3.', '4.') of the narrative filter
NarrativePrefixes == { <<"1", ".">>, <<"2", ".">>, <<"3", ".">>, <<"4", ".">> }

\* mutant: range(1,4), the prefix "4." is missed
ChoicePrefixesShort == { <<ToString(i), ".">> : i \in 1..3 }

\* tuple(f"{i}." for i in range(1,5)) of the choice filter
ChoicePrefixes == { <<ToString(i), ".">> : i \in 1..4 }

\* line[3:]
DropPrefix(line) == SubSeq(line, 4, Len(line))

\* choices[:4]
FirstFour(cs) == SubSeq(cs, 1, Min(4, Len(cs)))

IsNarrativeLine(line) == ~ \E p \in NarrativePrefixes : StartsWith(line, p)

IsChoiceLine(line) == \E p \in ChoicePrefixes : StartsWith(line, p)

\* story_text of line 91
ParseStory(text) == Join(<<NL>>, SelectSeq(SplitLines(text), IsNarrativeLine))

\* choices of line 92, before the slice of line 99
ParseChoiceList(text) ==
    LET ls == SelectSeq(SplitLines(text), IsChoiceLine)
    IN  [i \in 1..Len(ls) |-> DropPrefix(ls[i])]

\* what generate_story_segment returns for a reply (lines 91, 92, 99)
ParseSegment(text) ==
    [story |-> ParseStory(text), choices |-> FirstFour(ParseChoiceList(text))]

-----------------------------------------------------------------------------
(* dict, in insertion order: a sequence of <<key, value>> with distinct keys *)

DictHas(d, k) == \E i \in 1..Len(d) : d[i][1] = k

\* d[k]
DictGet(d, k) == d[CHOOSE i \in 1..Len(d) : d[i][1] = k][2]

\* d[k] = v: an existing key keeps its place, a new key goes last
DictSet(d, k, v) ==
    IF DictHas(d, k)
    THEN [i \in 1..Len(d) |-> IF d[i][1] = k THEN <<k, v>> ELSE d[i]]
    ELSE Append(d, <<k, v>>)

\* d.update(other) for a dict other
RECURSIVE UpdateFromDict(_, _)
UpdateFromDict(d, entries) ==
    IF Len(entries) = 0 THEN d
    ELSE UpdateFromDict(DictSet(d, entries[1][1], entries[1][2]), Tail(entries))

\* d.update(other) for a list other: the elements are merged one at a time,
\* each must be a sequence of length 2; the first element that is not raises
\* and the keys set before it stay set.
RECURSIVE UpdateFromList(_, _)
UpdateFromList(d, elems) ==
    IF Len(elems) = 0 THEN [d |-> d, raised |-> FALSE]
    ELSE IF elems[1].type # "list" THEN [d |-> d, raised |-> TRUE]
    ELSE IF Len(elems[1].elems) # 2 THEN [d |-> d, raised |-> TRUE]
    ELSE UpdateFromList(DictSet(d, elems[1].elems[1], elems[1].elems[2]), Tail(elems))

\* d.update(other)
DictUpdate(d, other) ==
    IF other.type = "dict" THEN [d |-> UpdateFromDict(d, other.entries), raised |-> FALSE]
    ELSE IF other.type = "list" THEN UpdateFromList(d, other.elems)
    ELSE [d |-> d, raised |-> TRUE]

-----------------------------------------------------------------------------
(* json.dumps / json.load                                                  *)
(* A JSON document is [kind |-> "invalid"] (bytes that are no JSON),        *)
(* [kind |-> "number", value |-> n], [kind |-> "array", items |-> ...] or  *)
(* [kind |-> "object", members |-> <<name, value>> ...] with string names. *)
(* The first item of a two-item inner array carries its JSON type          *)
(* (StrKey / IntKey) because dict.update uses it as a key.  Values of the  *)
(* JSON-native types (int, str, bool, list, dict with str keys) are        *)
(* written and read back unchanged; keys are coerced to strings.           *)

\* the member name json.dumps writes for a dict key
JsonKeyName(k) == IF k[1] = "str" THEN k[2] ELSE ToString(k[2])

\* json.dumps(d)
JsonDumps(d) ==
    [kind |-> "object",
     members |-> [i \in 1..Len(d) |-> <<JsonKeyName(d[i][1]), d[i][2]>>]]

\* the Python value of a parsed JSON item
JsonItem(item) ==
    IF item.kind = "array" THEN [type |-> "list", elems |-> item.items]
    ELSE [type |-> "int", v |-> item.value]

\* json.load(file)
JsonLoad(doc) ==
    IF doc.kind = "invalid" THEN [raised |-> TRUE]
    ELSE IF doc.kind = "object"
    THEN [raised |-> FALSE,
          value |-> [type |-> "dict",
                     entries |-> UpdateFromDict(<<>>,
                        [i \in 1..Len(doc.members) |->
                            <<StrKey(doc.members[i][1]), doc.members[i][2]>>])]]
    ELSE IF doc.kind = "array"
    THEN [raised |-> FALSE,
          value |-> [type |-> "list",
                     elems |-> [i \in 1..Len(doc.items) |-> JsonItem(doc.items[i])]]]
    ELSE [raised |-> FALSE, value |-> [type |-> "int", v |-> doc.value]]

\* the try block of the file uploader: json.load, then user_data.update
LoadSave(d, doc) ==
    IF JsonLoad(doc).raised THEN [d |-> d, raised |-> TRUE]
    ELSE DictUpdate(d, JsonLoad(doc).value)

-----------------------------------------------------------------------------
(* Constants of the program *)

Locations ==
    << [name |-> "Mars Colony Alpha",    image |-> "images/colony_alpha.jpg"],
       [name |-> "Olympus Mons Outpost", image |-> "images/olympus_mons.jpg"],
       [name |-> "Valles Marineris Hub", image |-> "images/valles_marineris.jpg"],
       [name |-> "Polar Caps Station",   image |-> "images/polar_caps.jpg"] >>

\* str(uuid.uuid4()), one opaque token for the session
StoryId == "uuid4"

DEFAULT_PROFILE ==
    << <<StrKey("name"), "Alex">>,
       <<StrKey("gender"), "Non-binary">>,
       <<StrKey("age"), 25>>,
       <<StrKey("origin"), "New York, Earth">>,
       <<StrKey("genre"), "Sci-Fi">>,
       <<StrKey("progress"), 0>>,
       <<StrKey("inventory"), <<>> >>,
       <<StrKey("location"), "Mars Colony Alpha">>,
       <<StrKey("story_id"), StoryId>>,
       <<StrKey("created"), FALSE>>,
       <<StrKey("locations"), Locations>> >>

\* the literal "New story"
NewStory == <<"N", "e", "w", " ", "s", "t", "o", "r", "y">>

-----------------------------------------------------------------------------
(* Inputs *)

\* what the character-creation form can submit
Names == {"Sam"}
Genders == {"Female"}
Ages == {125}
Origins == {"Tokyo, Earth"}
GenreInputs == {"Noir"}

\* replies of the text-generation service
ReplyTwo == <<"P", NL, "1", ".", " ", "A", NL, "2", ".", " ">> \o NewStory
ReplyOne == <<"P", NL, "1", ".", " ", "A">>
ReplyNone == <<"P">>
ReplyNoStory == <<"1", ".", " ", "A", NL, "2", ".", " ", "B">>
Replies == {ReplyTwo, ReplyOne, ReplyNone, ReplyNoStory}

\* save files a user can upload besides the one just downloaded
BadJson == [kind |-> "invalid"]
NumberSave == [kind |-> "number", value |-> 5]
ForeignSave == [kind |-> "object", members |-> << <<"location", "Earth">> >>]
PartialSave ==
    [kind |-> "array",
     items |-> << [kind |-> "array", items |-> <<StrKey("name"), "Eve">>],
                  [kind |-> "array", items |-> <<IntKey(1), 2>>],
                  [kind |-> "number", value |-> 7] >>]
SampleFiles == {BadJson, NumberSave, ForeignSave, PartialSave}

\* no download was offered yet
NoFile == [kind |-> "nofile"]

\* lines the parser specification builds reply texts from
SampleLines ==
    { <<"1", ".", " ", "A">>, <<"4", ".", "B">>, <<"5", ".", " ", "A">>,
      <<"P">>, <<>>, <<"2", ".">> }

-----------------------------------------------------------------------------
(* Reading the profile *)

Progress(d) == DictGet(d, StrKey("progress"))

Location(d) == DictGet(d, StrKey("location"))

LocationList(d) == DictGet(d, StrKey("locations"))

Created(d) == DictGet(d, StrKey("created"))

\* mutant: story_choices[:3], the oldest three entries
LastThreeFirst(h) == SubSeq(h, 1, Min(3, Len(h)))

\* story_choices[-3:]
LastThree(h) == SubSeq(h, Len(h) - Min(3, Len(h)) + 1, Len(h))

\* the context of lines 211-212
Context(d, h) ==
    IF Progress(d) = 0 THEN NewStory ELSE Join(<<" ">>, LastThree(h))

\* mutant: the location is indexed by the current progress, not the next
AdvanceLocationCurrent(d) ==
    IF Progress(d) < Len(LocationList(d)) /\ Progress(d) >= 0
    THEN [d |-> DictSet(d, StrKey("location"), LocationList(d)[Progress(d) + 1].name),
          raised |-> FALSE]
    ELSE [d |-> d, raised |-> FALSE]

\* lines 95-97: the location is set from the next progress value when that
\* indexes the location list (a Python index: negative values count from the
\* end, an index before the start raises)
AdvanceLocation(d) ==
    LET p    == Progress(d) + 1
        locs == LocationList(d)
    IN  IF ~(p < Len(locs)) THEN [d |-> d, raised |-> FALSE]
        ELSE IF p >= 0
        THEN [d |-> DictSet(d, StrKey("location"), locs[p + 1].name), raised |-> FALSE]
        ELSE IF p >= -Len(locs)
        THEN [d |-> DictSet(d, StrKey("location"), locs[Len(locs) + p + 1].name),
              raised |-> FALSE]
        ELSE [d |-> d, raised |-> TRUE]

\* truth value of an Optional[str]
Truthy(st) == st # NoneVal /\ st[1] # <<>>

\* lines 216-230: the segment with its buttons, the warning, or nothing
Render(st, cs) ==
    IF Truthy(st) /\ cs # <<>> THEN "segment"
    ELSE IF cs = <<>> THEN "warning"
    ELSE "blank"

\* mutant: progress += 2
RecordChoiceTwice(d) == DictSet(d, StrKey("progress"), Progress(d) + 2)

\* mutant: the choice is inserted at the front of the history
AppendChoiceFront(h, choice) == <<choice>> \o h

\* the button handler, lines 225-226
RecordChoice(d) == DictSet(d, StrKey("progress"), Progress(d) + 1)

AppendChoice(h, choice) == Append(h, choice)

-----------------------------------------------------------------------------
(* The session *)

Init ==
    /\ user_data = DEFAULT_PROFILE
    /\ story_choices = <<>>
    /\ pc = "run"
    /\ save_data = NoFile
    /\ upload_msg = "none"
    /\ context = <<>>
    /\ full_text = <<>>
    /\ story_text = NoneVal
    /\ choices = <<>>
    /\ gen_error = FALSE
    /\ screen = "blank"

\* a new run of the script starts: the locals of the last run are gone and
\* the page is drawn afresh
StartRun ==
    /\ pc' = "run"
    /\ upload_msg' = "none"
    /\ context' = <<>>
    /\ full_text' = <<>>
    /\ story_text' = NoneVal
    /\ choices' = <<>>
    /\ gen_error' = FALSE
    /\ screen' = "blank"

\* main() while the character is not created: the form is shown, the run ends
ShowForm ==
    /\ pc = "run"
    /\ ~Created(user_data)
    /\ pc' = "form"
    /\ screen' = "form"
    /\ UNCHANGED <<user_data, story_choices, save_data, upload_msg, context,
                   full_text, story_text, choices, gen_error>>

\* "Begin Your Mars Adventure"
SubmitForm(name, gender, age, origin, genre) ==
    /\ pc = "form"
    /\ user_data' = UpdateFromDict(user_data,
            << <<StrKey("name"), name>>, <<StrKey("gender"), gender>>,
               <<StrKey("age"), age>>, <<StrKey("origin"), origin>>,
               <<StrKey("genre"), genre>>, <<StrKey("created"), TRUE>> >>)
    /\ StartRun
    /\ UNCHANGED <<story_choices, save_data>>

\* the sidebar of a run with no uploaded file
NoUpload ==
    /\ pc = "run"
    /\ Created(user_data)
    /\ save_data' = JsonDumps(user_data)
    /\ upload_msg' = "none"
    /\ pc' = "generate"
    /\ UNCHANGED <<user_data, story_choices, context, full_text, story_text,
                   choices, gen_error, screen>>

\* the sidebar of a run with an uploaded file
LoadGame(file) ==
    /\ pc = "run"
    /\ Created(user_data)
    /\ save_data' = JsonDumps(user_data)
    /\ user_data' = LoadSave(user_data, file).d
    /\ upload_msg' = IF LoadSave(user_data, file).raised THEN "error" ELSE "success"
    /\ pc' = "generate"
    /\ UNCHANGED <<story_choices, context, full_text, story_text, choices,
                   gen_error, screen>>

\* the files the uploader can hold: the samples and the last download
Uploads == SampleFiles \cup ({save_data} \ {NoFile})

\* mutant: the location is advanced before the remote call raises
FailedAfterAdvance(reply) ==
    /\ full_text' = reply
    /\ story_text' = NoneVal
    /\ choices' = <<>>
    /\ gen_error' = TRUE
    /\ screen' = "warning"
    /\ user_data' = DictSet(user_data, StrKey("location"),
                            LocationList(user_data)[1].name)

\* what the except branch of generate_story_segment leaves behind
Failed(reply) ==
    /\ full_text' = reply
    /\ story_text' = NoneVal
    /\ choices' = <<>>
    /\ gen_error' = TRUE
    /\ screen' = Render(NoneVal, <<>>)
    /\ UNCHANGED user_data

\* generate_story_segment when the remote call raises, then the rendering
GenerateRaise ==
    /\ pc = "generate"
    /\ context' = Context(user_data, story_choices)
    /\ Failed(<<>>)
    /\ pc' = "wait"
    /\ UNCHANGED <<story_choices, save_data, upload_msg>>

\* generate_story_segment when the remote call answers, then the rendering
GenerateReply(reply) ==
    /\ pc = "generate"
    /\ context' = Context(user_data, story_choices)
    /\ IF AdvanceLocation(user_data).raised
       THEN Failed(reply)
       ELSE /\ full_text' = reply
            /\ story_text' = Some(ParseSegment(reply).story)
            /\ choices' = ParseSegment(reply).choices
            /\ user_data' = AdvanceLocation(user_data).d
            /\ gen_error' = FALSE
            /\ screen' = Render(Some(ParseSegment(reply).story),
                                ParseSegment(reply).choices)
    /\ pc' = "wait"
    /\ UNCHANGED <<story_choices, save_data, upload_msg>>

\* a choice button is pressed
ClickChoice(idx) ==
    /\ pc = "wait"
    /\ screen = "segment"
    /\ idx \in 1..Len(choices)
    /\ Len(story_choices) < MaxChoices
    /\ Progress(user_data) < MaxChoices
    /\ user_data' = RecordChoice(user_data)
    /\ story_choices' = AppendChoice(story_choices, choices[idx])
    /\ StartRun
    /\ UNCHANGED save_data

\* any other widget event (download, upload) re-runs the script
Rerun ==
    /\ pc = "wait"
    /\ StartRun
    /\ UNCHANGED <<user_data, story_choices, save_data>>

Submit ==
    \E name \in Names, gender \in Genders, age \in Ages,
       origin \in Origins, genre \in GenreInputs :
        SubmitForm(name, gender, age, origin, genre)

Load == \E file \in Uploads : LoadGame(file)

Reply == \E reply \in Replies : GenerateReply(reply)

Click == \E idx \in 1..4 : ClickChoice(idx)

Next ==
    \/ ShowForm
    \/ Submit
    \/ NoUpload
    \/ Load
    \/ GenerateRaise
    \/ Reply
    \/ Click
    \/ Rerun

Spec == Init /\ [][Next]_vars

\* the session when no save file is ever uploaded
NextPlay ==
    \/ ShowForm
    \/ Submit
    \/ NoUpload
    \/ GenerateRaise
    \/ Reply
    \/ Click
    \/ Rerun

SpecPlay == Init /\ [][NextPlay]_vars

-----------------------------------------------------------------------------
(* The parser on its own: every reply of at most MaxLines sample lines *)

RECURSIVE Texts(_)
Texts(n) ==
    IF n = 0 THEN {}
    ELSE IF n = 1 THEN SampleLines
    ELSE Texts(n - 1) \cup
         { t \o <<NL>> \o l : t \in Texts(n - 1), l \in SampleLines }

InitParse ==
    /\ user_data = DEFAULT_PROFILE
    /\ story_choices = <<>>
    /\ pc = "parse"
    /\ save_data = NoFile
    /\ upload_msg = "none"
    /\ context = <<>>
    /\ full_text \in Texts(MaxLines)
    /\ story_text = NoneVal
    /\ choices = <<>>
    /\ gen_error = FALSE
    /\ screen = "blank"

\* lines 91, 92 and 99 applied to full_text
Parse ==
    /\ pc = "parse"
    /\ story_text' = Some(ParseSegment(full_text).story)
    /\ choices' = ParseSegment(full_text).choices
    /\ pc' = "parsed"
    /\ UNCHANGED <<user_data, story_choices, save_data, upload_msg, context,
                   full_text, gen_error, screen>>

NextParse == Parse

SpecParse == InitParse /\ [][NextParse]_vars

-----------------------------------------------------------------------------
(* Properties *)

\* a step in which a displayed choice is accepted
ChoiceStep ==
    pc = "wait" /\ (user_data' # user_data \/ story_choices' # story_choices)

\* a step in which the sidebar handles an uploaded file
LoadStep == pc = "run" /\ pc' = "generate" /\ upload_msg' # "none"

\* a step in which generate_story_segment runs
GenerateStep == pc = "generate" /\ pc' = "wait"

\* C1: accepting a displayed choice from progress p and history h gives
\* progress p+1 and history h with the selected choice text appended last;
\* the earlier entries are unchanged and keep their order.
C1_RecordChoice ==
    [][ChoiceStep =>
        /\ Progress(user_data') = Progress(user_data) + 1
        /\ Len(story_choices') = Len(story_choices) + 1
        /\ \E i \in 1..Len(choices) :
               story_choices'[Len(story_choices')] = choices[i]
        /\ SubSeq(story_choices', 1, Len(story_choices)) = story_choices]_vars

C1_Witness ==
    /\ pc = "run"
    /\ Len(story_choices) = 2
    /\ Progress(user_data) = 2
    /\ story_choices[1] # story_choices[2]

\* C2: when no save file is loaded, after a choice is accepted from progress p
\* the location is locations[min(p+1, len(locations)-1)].name (0-based),
\* also when p+1 is past the end of the list.
C2_LocationAfterChoice ==
    [][ChoiceStep =>
        Location(user_data') =
            LocationList(user_data)[
                Min(Progress(user_data) + 1, Len(LocationList(user_data)) - 1) + 1].name]_vars

C2_Witness ==
    /\ pc = "run"
    /\ Progress(user_data) = Len(LocationList(user_data))
    /\ Len(story_choices) = Len(LocationList(user_data))
    /\ Location(user_data) = "Polar Caps Station"

\* the space-joined last min(3, len(h)) entries of h, oldest first
ExpectedContext(h) ==
    LET n == Len(h)
    IN  IF n = 0 THEN <<>>
        ELSE IF n = 1 THEN h[1]
        ELSE IF n = 2 THEN h[1] \o <<" ">> \o h[2]
        ELSE h[n - 2] \o <<" ">> \o h[n - 1] \o <<" ">> \o h[n]

\* C3 as claimed: the context handed to generation is "New story" if and only
\* if progress is 0, and the joined last entries when progress > 0.
C3_Original ==
    pc = "wait" =>
        /\ (context = NewStory) <=> (Progress(user_data) = 0)
        /\ Progress(user_data) > 0 => context = ExpectedContext(story_choices)

\* C3 as amended: the context is "New story" whenever progress is 0, and the
\* space-joined last min(3, len) history entries, oldest first, otherwise
\* (which may itself read "New story").
C3_Context ==
    pc = "wait" =>
        /\ Progress(user_data) = 0 => context = NewStory
        /\ Progress(user_data) # 0 => context = ExpectedContext(story_choices)

C3_Witness ==
    /\ pc = "wait"
    /\ Progress(user_data) # 0
    /\ Len(story_choices) = 4
    /\ story_choices[1] # story_choices[2]
    /\ context # NewStory

\* a line that starts with "1.", "2.", "3." or "4."
SpecChoiceLine(l) == Len(l) >= 2 /\ l[1] \in {"1", "2", "3", "4"} /\ l[2] = "."

SpecNarrativeLine(l) == ~SpecChoiceLine(l)

\* C4: the narrative is the non-choice lines joined by newline in order; the
\* choices are the choice lines without their first 3 characters, in order,
\* cut to the first 4; every line is in exactly one of the two before the
\* cut, and at most 4 choices are returned.
C4_Parse ==
    pc = "parsed" =>
        LET ls == SplitLines(full_text)
            cl == SelectSeq(ls, SpecChoiceLine)
            nl == SelectSeq(ls, SpecNarrativeLine)
            un == ParseChoiceList(full_text)
        IN  /\ story_text = Some(Join(<<NL>>, nl))
            /\ nl # <<>> => SplitLines(story_text[1]) = nl
            /\ Len(un) = Len(cl)
            /\ \A i \in 1..Len(cl) : cl[i] = SubSeq(cl[i], 1, Min(3, Len(cl[i]))) \o un[i]
            /\ Len(cl) + Len(nl) = Len(ls)
            /\ Len(choices) = Min(4, Len(cl))
            /\ \A i \in 1..Len(choices) : choices[i] = un[i]
            /\ Len(choices) <= 4

C4_Witness ==
    /\ pc = "parsed"
    /\ Len(ParseChoiceList(full_text)) = 5
    /\ Len(choices) = 4
    /\ choices[1] # choices[2]

\* C5: a reply that parses to fewer than 2 choices shows the warning, offers
\* no choice, and leaves the profile and the history as they were.
C5_Malformed ==
    [][(GenerateStep /\ ~gen_error' /\ Len(choices') < 2) =>
        /\ screen' = "warning"
        /\ user_data' = user_data
        /\ story_choices' = story_choices]_vars

\* C6: when generation raises, the result is (None, []), the profile and the
\* history are unchanged, the warning is shown and the script waits for the
\* user (no second attempt), who can re-run it.
C6_GenerationError ==
    /\ [][(GenerateStep /\ gen_error') =>
        /\ story_text' = NoneVal
        /\ choices' = <<>>
        /\ user_data' = user_data
        /\ story_choices' = story_choices
        /\ screen' = "warning"
        /\ pc' = "wait"]_vars
    /\ []((pc = "wait" /\ gen_error) => ENABLED Rerun)

C6_Witness ==
    /\ pc = "wait"
    /\ gen_error
    /\ story_text = NoneVal
    /\ Progress(user_data) = 1
    /\ Location(user_data) = "Olympus Mons Outpost"

\* C7: when the load of a save file reports an error, the profile is exactly
\* what it was before.
C7_FailedLoad ==
    [][(LoadStep /\ upload_msg' = "error") => user_data' = user_data]_vars

\* C8: loading the serialization of the profile into the profile changes
\* nothing.
C8_RoundTrip ==
    Created(user_data) =>
        /\ ~LoadSave(user_data, JsonDumps(user_data)).raised
        /\ LoadSave(user_data, JsonDumps(user_data)).d = user_data

\* C9 as claimed: progress is non-negative, never decreases, and changes only
\* by +1 when a choice is accepted, also across save-file loads.
C9_Original ==
    [][/\ Progress(user_data') >= 0
       /\ \/ Progress(user_data') = Progress(user_data)
          \/ ChoiceStep /\ Progress(user_data') = Progress(user_data) + 1]_vars

\* C9 as amended: every step other than a save-file load leaves progress
\* unchanged or, when a choice is accepted, raises it by exactly 1.
C9_Progress ==
    [][\/ LoadStep
       \/ Progress(user_data') = Progress(user_data)
       \/ ChoiceStep /\ Progress(user_data') = Progress(user_data) + 1]_vars

C9_Witness ==
    /\ pc = "generate"
    /\ upload_msg = "success"
    /\ Len(story_choices) = 3
    /\ Progress(user_data) = 2

\* C10: the location is the name of an entry of the profile's location list.
C10_LocationInList ==
    \E i \in 1..Len(LocationList(user_data)) :
        LocationList(user_data)[i].name = Location(user_data)

====
